---- MODULE Spec2Model ----
(***************************************************************************)
(* Model of the otel command-line entry point (tool/otel/main.go) and of   *)
(* the errc error values (package errc).                                   *)
(*                                                                         *)
(* Spec    : one top-level invocation of the tool and the remix child      *)
(*           processes its go handler launches, sharing one temporary      *)
(*           workspace on the filesystem.                                  *)
(* SpecErr : the errc operations New, With and Adhere on a heap of error   *)
(*           objects.                                                      *)
(***************************************************************************)
EXTENDS Integers, Sequences, FiniteSets, TLC

VARIABLES
    osArgs,         \* os.Args of each process (a sequence of words)
    pc,             \* control position of each process
    runPhase,       \* util's run phase of each process
    err,            \* the variable err of main
    subdirIdx,      \* position of the loop of initTempDir
    stdout,         \* number of times the usage text was printed
    stderr,         \* what was written to os.Stderr
    reports,        \* the messages handed to util.LogFatal
    exitCode,       \* exit status, NotExited while running
    handler,        \* the handler main invoked, "none" before
    root,           \* whether util.TempBuildDir exists
    sub,            \* the two subdirectories of util.TempBuildDir
    initErr,        \* what initEnv returned, Pending before it returns
    heap,           \* errc: the error objects, by reference
    call,           \* errc: the last call made
    ret             \* errc: the reference the last call returned

procVars == <<osArgs, pc, runPhase, err, subdirIdx, stdout, stderr, reports,
              exitCode, handler, initErr>>
fsVars   == <<root, sub>>
errcVars == <<heap, call, ret>>
vars     == <<osArgs, pc, runPhase, err, subdirIdx, stdout, stderr, reports,
              exitCode, handler, initErr, root, sub, heap, call, ret>>

----------------------------------------------------------------------------
(* Bounds *)

MaxChildren == 2    \* remix children one go handler launches
MaxErrs     == 2    \* error objects on the errc heap

----------------------------------------------------------------------------
(* Words: a Go string is a sequence of one-character strings *)

SubcommandSet     == <<"s", "e", "t">>
SubcommandGo      == <<"g", "o">>
SubcommandVersion == <<"v", "e", "r", "s", "i", "o", "n">>
SubcommandRemix   == <<"r", "e", "m", "i", "x">>

ToolName == <<"o", "t", "e", "l">>

\* first arguments that are no subcommand
WordBuild == <<"b", "u", "i", "l", "d">>
WordXgo   == <<"x", "g", "o">>
WordGox   == <<"g", "o", "x">>
WordFoo   == <<"f", "o", "o">>
WordO     == <<"o">>
WordEmpty == <<>>

\* the command lines a process is started with
CommandLines ==
    {<<ToolName>>} \cup
    {<<ToolName, w>> : w \in {SubcommandSet, SubcommandGo, SubcommandVersion,
                              SubcommandRemix, WordXgo, WordGox, WordFoo,
                              WordO, WordEmpty}} \cup
    {<<ToolName, SubcommandGo, WordBuild>>,
     <<ToolName, SubcommandVersion, SubcommandGo>>,
     <<ToolName, SubcommandRemix, SubcommandGo>>,
     <<ToolName, WordFoo, SubcommandRemix>>}

\* strings.HasSuffix(s, suffix)
HasSuffixEq(s, suffix) == s = suffix
HasSuffix(s, suffix) ==
    /\ Len(s) >= Len(suffix)
    /\ SubSeq(s, Len(s) - Len(suffix) + 1, Len(s)) = suffix

\* strings.Join(words, sep)
RECURSIVE Join(_, _)
Join(words, sep) ==
    IF Len(words) = 0 THEN <<>>
    ELSE IF Len(words) = 1 THEN words[1]
    ELSE words[1] \o sep \o Join(Tail(words), sep)

----------------------------------------------------------------------------
(* package errc *)

Keys   == {"stage", "pkg"}
Values == {"link", "main"}

EmptyMap == [k \in {} |-> "link"]

Nil == [kind |-> "nil", Reason |-> "", Cause |-> "", Details |-> EmptyMap]

\* debug.Stack(): the backtrace captured where the error is created
StackTrace == "backtrace"

\* errc.New(message)
New(message) ==
    [kind |-> "PlentifulError", Reason |-> message, Cause |-> StackTrace,
     Details |-> EmptyMap]

\* an error of another kind, with its message
Opaque(message) ==
    [kind |-> "opaque", Reason |-> message, Cause |-> "", Details |-> EmptyMap]

\* Details[key] = value
MapStore(details, key, value) ==
    [k \in DOMAIN details \cup {key} |-> IF k = key THEN value ELSE details[k]]

\* (*PlentifulError).Error() and the Error() of another kind of error
Error(e) ==
    IF e.kind = "PlentifulError" THEN <<e.Reason, "\n", e.Cause>>
    ELSE <<e.Reason>>

\* (*PlentifulError).With(key, value): the object after the call
With(pe, key, value) == [pe EXCEPT !.Details = MapStore(@, key, value)]


\* err.(*PlentifulError): whether the dynamic type of e is *PlentifulError
IsPlentiful(e) == e.kind = "PlentifulError"

(* The heap of SpecErr: reference 0 is the nil error, the others are free *)
(* or hold an error object.                                               *)
NilRef == 0
Refs   == 1..MaxErrs
Free   == [kind |-> "free", Reason |-> "", Cause |-> "", Details |-> EmptyMap]

Messages == {"link error", "compile failed"}

NoCall == [op |-> "none", err |-> NilRef, key |-> "", value |-> ""]

\* errc.Adhere(err, key, value): the heap after the call and the reference
\* it returns
AdhereOverwrite(h, e, key, value) ==
    IF IsPlentiful(h[e])
    THEN [heap |-> [h EXCEPT ![e].Details = MapStore(EmptyMap, key, value)],
          ret  |-> e]
    ELSE [heap |-> h, ret |-> e]
Adhere(h, e, key, value) ==
    IF IsPlentiful(h[e])
    THEN [heap |-> [h EXCEPT ![e].Details = MapStore(@, key, value)],
          ret  |-> e]
    ELSE [heap |-> h, ret |-> e]

\* a call of errc.New: a fresh object
ErrNew(r, message) ==
    /\ heap[r] = Free
    /\ heap' = [heap EXCEPT ![r] = New(message)]
    /\ call' = [op |-> "New", err |-> NilRef, key |-> message, value |-> ""]
    /\ ret' = r

\* a collaborator creates an error of another kind
ErrForeign(r, message) ==
    /\ heap[r] = Free
    /\ heap' = [heap EXCEPT ![r] = Opaque(message)]
    /\ call' = [op |-> "foreign", err |-> NilRef, key |-> message, value |-> ""]
    /\ ret' = r

\* a call of pe.With(key, value)
ErrWith(r, key, value) ==
    /\ IsPlentiful(heap[r])
    /\ heap' = [heap EXCEPT ![r] = With(@, key, value)]
    /\ call' = [op |-> "With", err |-> r, key |-> key, value |-> value]
    /\ ret' = r

\* a call of errc.Adhere(err, key, value), err nil or any error created
ErrAdhere(r, key, value) ==
    /\ heap[r] # Free
    /\ LET res == Adhere(heap, r, key, value)
       IN  /\ heap' = res.heap
           /\ ret' = res.ret
    /\ call' = [op |-> "Adhere", err |-> r, key |-> key, value |-> value]

----------------------------------------------------------------------------
(* Processes and the temporary workspace *)

Top      == 0
Children == 1..MaxChildren
Procs    == {Top} \cup Children

\* util's run phases; the two named subdirectories carry their names
PUnset      == "unset"
PPreprocess == "preprocess"
PInstrument == "instrument"

\* the loop of initTempDir visits these in this order
SubDirs == <<PPreprocess, PInstrument>>

Files == {"f1"}

Absent   == [exists |-> FALSE, files |-> {}]
EmptyDir == [exists |-> TRUE, files |-> {}]

\* the states of the workspace: no subdirectory without the root
Workspaces ==
    {w \in [root : BOOLEAN,
            sub  : [{PPreprocess, PInstrument} ->
                       [exists : BOOLEAN, files : SUBSET Files]]] :
        /\ \A d \in DOMAIN w.sub : ~w.sub[d].exists => w.sub[d].files = {}
        /\ ~w.root => \A d \in DOMAIN w.sub : ~w.sub[d].exists}

NotExited == -1
Pending   == [kind |-> "pending", Reason |-> "", Cause |-> "",
              Details |-> EmptyMap]

\* the errors the collaborators return
DetailMaps ==
    {EmptyMap,
     MapStore(EmptyMap, "stage", "link"),
     MapStore(MapStore(EmptyMap, "stage", "link"), "pkg", "main")}
HandlerErrors ==
    {[New("link error") EXCEPT !.Details = d] : d \in DetailMaps}
        \cup {Opaque("exit status 2")}
ConfigErrors == {New("invalid config"), Opaque("permission denied")}

\* the statuses util.LogFatal may end the process with
FatalStatus == {1, 2}

----------------------------------------------------------------------------
(* util *)

\* util.PathNotExists(path)
PathNotExists(exists) == ~exists

\* util.InPreprocess(), util.InInstrument()
InPreprocess(phase) == phase = PPreprocess
InInstrument(phase) == phase = PInstrument

\* util.LogFatal(format, message): logs the message and ends the process
LogFatal(p, message, status) ==
    /\ reports' = [reports EXCEPT ![p] = Append(@, message)]
    /\ pc' = [pc EXCEPT ![p] = "exited"]
    /\ exitCode' = [exitCode EXCEPT ![p] = status]
    /\ UNCHANGED stderr

----------------------------------------------------------------------------
(* main.go *)

\* os.Exit(code), or main returning (code 0)
osExit(p, code) ==
    /\ pc' = [pc EXCEPT ![p] = "exited"]
    /\ exitCode' = [exitCode EXCEPT ![p] = code]
    /\ UNCHANGED <<reports, stderr>>

\* printUsage()
printUsage(p) == stdout' = [stdout EXCEPT ![p] = Append(@, "usage")]

\* one line of the fatal message: fmt.Sprintf("%-11s: %s\n", label, value)
Line(label, value) == [label |-> label, value |-> value]
Header(title)      == Line("=====", <<title>>)

\* the orders in which range may visit the keys of a map
Orders(S) ==
    {o \in [1..Cardinality(S) -> S] :
        \A i, j \in 1..Cardinality(S) : i # j => o[i] # o[j]}

\* the message fatal builds for err, range visiting Details in this order
fatalMessage(args, e, order) ==
    <<Header("Environments"),
      Line("command", Join(args, <<" ">>)),
      Line("errorLog", <<"GetLoggerPath">>),
      Line("workDir", <<"PWD">>),
      Line("toolchain", <<"GOOS/GOARCH", "Version", "ToolVersion">>)>>
    \o (IF IsPlentiful(e) /\ Cardinality(DOMAIN e.Details) > 0
        THEN [i \in 1..Len(order) |-> Line(order[i], <<e.Details[order[i]]>>)]
        ELSE <<>>)
    \o <<Header("Fatal Error")>>
    \o (IF IsPlentiful(e) THEN <<Line("", <<e.Reason>>)>> ELSE <<>>)

\* fatal(err)
fatal(p, e) ==
    \E order \in Orders(DOMAIN e.Details), status \in FatalStatus :
        LogFatal(p, fatalMessage(osArgs[p], e, order), status)

\* initEnv, the switch over os.Args[1]: the run phase after it
determinePhaseNoRemix(args, phase) ==
    IF HasSuffix(args[2], SubcommandGo) THEN PPreprocess ELSE phase
determinePhase(args, phase) ==
    IF HasSuffix(args[2], SubcommandGo) THEN PPreprocess
    ELSE IF args[2] = SubcommandRemix THEN PInstrument
    ELSE phase

\* initTempDir: util.GetRunPhase() == util.PInstrument
IsInstrumentRunNever(phase) == FALSE
IsInstrumentRun(phase) == phase = PInstrument

\* main: err := initEnv(); if err != nil { fatal(err) }
initEnvReturnIgnored(p, e) ==
    /\ pc' = [pc EXCEPT ![p] = "dispatch"]
    /\ UNCHANGED <<reports, exitCode, stderr>>
initEnvReturn(p, e) ==
    IF e # Nil THEN fatal(p, e)
    ELSE /\ pc' = [pc EXCEPT ![p] = "dispatch"]
         /\ UNCHANGED <<reports, exitCode, stderr>>

\* main: the last statement, if err != nil { fatal(err) }, then the return
mainReturnIgnored(p, e) == osExit(p, 0)
mainReturn(p, e) ==
    IF e # Nil THEN fatal(p, e) ELSE osExit(p, 0)

\* main, case SubcommandRemix with err != nil
remixFailedFatal(p, e) == fatal(p, e)
remixFailed(p, e) ==
    /\ stderr' = [stderr EXCEPT ![p] = @ \o Error(e) \o <<"\n">>]
    /\ pc' = [pc EXCEPT ![p] = "exited"]
    /\ exitCode' = [exitCode EXCEPT ![p] = 1]
    /\ UNCHANGED reports

----------------------------------------------------------------------------
(* The steps of one process p *)

\* main up to the call of initTempDir: the check of len(os.Args) and the
\* switch of initEnv that sets the run phase
main(p) ==
    /\ pc[p] = "main"
    /\ IF Len(osArgs[p]) < 2
       THEN /\ printUsage(p)
            /\ osExit(p, 0)
            /\ UNCHANGED runPhase
       ELSE /\ runPhase' = [runPhase EXCEPT
                               ![p] = determinePhase(osArgs[p], @)]
            /\ pc' = [pc EXCEPT ![p] = "initTempDir"]
            /\ UNCHANGED <<stdout, reports, exitCode, stderr>>
    /\ UNCHANGED <<osArgs, err, subdirIdx, handler, initErr, fsVars, errcVars>>

\* initTempDir up to its loop: the phase check and the root directory.
\* os.MkdirAll may fail; initEnv then returns errc.New(err.Error()).
initTempDir(p) ==
    /\ pc[p] = "initTempDir"
    /\ IF IsInstrumentRun(runPhase[p])
       THEN /\ pc' = [pc EXCEPT ![p] = "initConfig"]
            /\ UNCHANGED <<root, err, initErr, subdirIdx, reports, exitCode,
                           stderr>>
       ELSE IF PathNotExists(root)
       THEN \/ /\ root' = TRUE
               /\ pc' = [pc EXCEPT ![p] = "removeAll"]
               /\ subdirIdx' = [subdirIdx EXCEPT ![p] = 1]
               /\ UNCHANGED <<err, initErr, reports, exitCode, stderr>>
            \/ /\ LET e == New("mkdir: permission denied")
                  IN  /\ err' = [err EXCEPT ![p] = e]
                      /\ initErr' = [initErr EXCEPT ![p] = e]
                      /\ initEnvReturn(p, e)
               /\ UNCHANGED <<root, subdirIdx>>
       ELSE /\ pc' = [pc EXCEPT ![p] = "removeAll"]
            /\ subdirIdx' = [subdirIdx EXCEPT ![p] = 1]
            /\ UNCHANGED <<root, err, initErr, reports, exitCode, stderr>>
    /\ UNCHANGED <<osArgs, runPhase, stdout, handler, sub, errcVars>>

\* the loop of initTempDir: _ = os.RemoveAll(subdir). It removes the
\* subdirectory, or fails having removed some of its files; the error is
\* dropped.
removeAll(p) ==
    /\ pc[p] = "removeAll"
    /\ LET d == SubDirs[subdirIdx[p]]
       IN  \/ sub' = [sub EXCEPT ![d] = Absent]
           \/ /\ sub[d].exists
              /\ \E rest \in SUBSET sub[d].files :
                    sub' = [sub EXCEPT ![d].files = rest]
    /\ pc' = [pc EXCEPT ![p] = "mkdirAll"]
    /\ UNCHANGED <<osArgs, runPhase, err, subdirIdx, stdout, stderr, reports,
                   exitCode, handler, initErr, root, errcVars>>

\* the loop of initTempDir: _ = os.MkdirAll(subdir, 0777). It does nothing
\* to a directory that exists, creates it with its parents, or fails; the
\* error is dropped. After the last subdirectory initTempDir returns nil.
mkdirAll(p) ==
    /\ pc[p] = "mkdirAll"
    /\ LET d == SubDirs[subdirIdx[p]]
       IN  IF sub[d].exists
           THEN UNCHANGED <<root, sub>>
           ELSE \/ /\ root' = TRUE
                   /\ sub' = [sub EXCEPT ![d] = EmptyDir]
                \/ UNCHANGED <<root, sub>>
    /\ IF subdirIdx[p] < Len(SubDirs)
       THEN /\ subdirIdx' = [subdirIdx EXCEPT ![p] = @ + 1]
            /\ pc' = [pc EXCEPT ![p] = "removeAll"]
       ELSE /\ pc' = [pc EXCEPT ![p] = "initConfig"]
            /\ UNCHANGED subdirIdx
    /\ UNCHANGED <<osArgs, runPhase, err, stdout, stderr, reports, exitCode,
                   handler, initErr, errcVars>>

\* the rest of initEnv: config.InitConfig() in the two phases that need it,
\* and main's check of what initEnv returned
initConfig(p) ==
    /\ pc[p] = "initConfig"
    /\ \E e \in IF InPreprocess(runPhase[p]) \/ InInstrument(runPhase[p])
                THEN {Nil} \cup ConfigErrors ELSE {Nil} :
          /\ err' = [err EXCEPT ![p] = e]
          /\ initErr' = [initErr EXCEPT ![p] = e]
          /\ initEnvReturn(p, e)
    /\ UNCHANGED <<osArgs, runPhase, subdirIdx, stdout, handler, fsVars, errcVars>>

\* main, case SubcommandVersion: err = config.PrintVersion()
mainVersion(p) ==
    /\ pc[p] = "dispatch"
    /\ osArgs[p][2] = SubcommandVersion
    /\ handler' = [handler EXCEPT ![p] = "version"]
    /\ \E e \in {Nil} \cup HandlerErrors :
          /\ err' = [err EXCEPT ![p] = e]
          /\ mainReturn(p, e)
    /\ UNCHANGED <<osArgs, runPhase, subdirIdx, stdout, initErr, fsVars, errcVars>>

\* main, case SubcommandSet: err = config.Configure()
mainSet(p) ==
    /\ pc[p] = "dispatch"
    /\ osArgs[p][2] = SubcommandSet
    /\ handler' = [handler EXCEPT ![p] = "set"]
    /\ \E e \in {Nil} \cup HandlerErrors :
          /\ err' = [err EXCEPT ![p] = e]
          /\ mainReturn(p, e)
    /\ UNCHANGED <<osArgs, runPhase, subdirIdx, stdout, initErr, fsVars, errcVars>>

\* main, case SubcommandGo: preprocess.Preprocess() starts
mainGo(p) ==
    /\ pc[p] = "dispatch"
    /\ osArgs[p][2] = SubcommandGo
    /\ handler' = [handler EXCEPT ![p] = "go"]
    /\ pc' = [pc EXCEPT ![p] = "handler"]
    /\ UNCHANGED <<osArgs, runPhase, err, subdirIdx, stdout, stderr, reports,
                   exitCode, initErr, fsVars, errcVars>>

\* main, case SubcommandRemix: instrument.Instrument() starts
mainRemix(p) ==
    /\ pc[p] = "dispatch"
    /\ osArgs[p][2] = SubcommandRemix
    /\ handler' = [handler EXCEPT ![p] = "remix"]
    /\ pc' = [pc EXCEPT ![p] = "handler"]
    /\ UNCHANGED <<osArgs, runPhase, err, subdirIdx, stdout, stderr, reports,
                   exitCode, initErr, fsVars, errcVars>>

\* main, default: printUsage(), then the last statement of main
mainDefaultFails(p) ==
    /\ pc[p] = "dispatch"
    /\ osArgs[p][2] \notin {SubcommandVersion, SubcommandSet, SubcommandGo,
                            SubcommandRemix}
    /\ osExit(p, 2)
    /\ UNCHANGED <<osArgs, runPhase, err, subdirIdx, stdout, handler, initErr,
                   fsVars, errcVars>>
mainDefault(p) ==
    /\ pc[p] = "dispatch"
    /\ osArgs[p][2] \notin {SubcommandVersion, SubcommandSet, SubcommandGo,
                            SubcommandRemix}
    /\ printUsage(p)
    /\ mainReturn(p, err[p])
    /\ UNCHANGED <<osArgs, runPhase, err, subdirIdx, handler, initErr, fsVars,
                   errcVars>>

\* preprocess.Preprocess() runs the build, which launches the tool again as
\* "otel remix": the child c starts
launchRemix(p, c) ==
    /\ pc[p] = "handler"
    /\ handler[p] = "go"
    /\ pc[c] = "idle"
    /\ pc' = [pc EXCEPT ![c] = "main"]
    /\ osArgs' = [osArgs EXCEPT ![c] = <<ToolName, SubcommandRemix>>]
    /\ UNCHANGED <<runPhase, err, subdirIdx, stdout, stderr, reports,
                   exitCode, handler, initErr, fsVars, errcVars>>

\* a running handler (Preprocess or Instrument) writes a file into a
\* subdirectory of the workspace
handlerWrite(p, d, f) ==
    /\ pc[p] = "handler"
    /\ sub[d].exists
    /\ f \notin sub[d].files
    /\ sub' = [sub EXCEPT ![d].files = @ \cup {f}]
    /\ UNCHANGED <<procVars, root, errcVars>>

\* preprocess.Preprocess() returns, its children having ended, and main
\* reaches its last statement
PreprocessReturn(p) ==
    /\ pc[p] = "handler"
    /\ handler[p] = "go"
    /\ \A c \in Children : pc[c] \in {"idle", "exited"}
    /\ \E e \in {Nil} \cup HandlerErrors :
          /\ err' = [err EXCEPT ![p] = e]
          /\ mainReturn(p, e)
    /\ UNCHANGED <<osArgs, runPhase, subdirIdx, stdout, handler, initErr,
                   fsVars, errcVars>>

\* instrument.Instrument() returns: main, case SubcommandRemix, and the
\* last statement of main
InstrumentReturn(p) ==
    /\ pc[p] = "handler"
    /\ handler[p] = "remix"
    /\ \E e \in {Nil} \cup HandlerErrors :
          /\ err' = [err EXCEPT ![p] = e]
          /\ IF e # Nil THEN remixFailed(p, e) ELSE mainReturn(p, e)
    /\ UNCHANGED <<osArgs, runPhase, subdirIdx, stdout, handler, initErr,
                   fsVars, errcVars>>

----------------------------------------------------------------------------
(* Spec: invocations of the tool *)

\* the process state when the user starts the tool with command line args
Start(args) ==
    /\ osArgs    = [p \in Procs |-> IF p = Top THEN args ELSE <<>>]
    /\ pc        = [p \in Procs |-> IF p = Top THEN "main" ELSE "idle"]
    /\ runPhase  = [p \in Procs |-> PUnset]
    /\ err       = [p \in Procs |-> Nil]
    /\ subdirIdx = [p \in Procs |-> 1]
    /\ stdout    = [p \in Procs |-> <<>>]
    /\ stderr    = [p \in Procs |-> <<>>]
    /\ reports   = [p \in Procs |-> <<>>]
    /\ exitCode  = [p \in Procs |-> NotExited]
    /\ handler   = [p \in Procs |-> "none"]
    /\ initErr   = [p \in Procs |-> Pending]

NoErrc ==
    /\ heap = [r \in {NilRef} \cup Refs |-> IF r = NilRef THEN Nil ELSE Free]
    /\ call = NoCall
    /\ ret  = NilRef

Init ==
    /\ \E args \in CommandLines : Start(args)
    /\ \E w \in Workspaces : root = w.root /\ sub = w.sub
    /\ NoErrc

\* the tool has ended with its children and the user starts it again
reinvoke ==
    /\ \A p \in Procs : pc[p] \in {"idle", "exited"}
    /\ \E args \in CommandLines :
          /\ osArgs'    = [p \in Procs |-> IF p = Top THEN args ELSE <<>>]
          /\ pc'        = [p \in Procs |-> IF p = Top THEN "main" ELSE "idle"]
    /\ runPhase'  = [p \in Procs |-> PUnset]
    /\ err'       = [p \in Procs |-> Nil]
    /\ subdirIdx' = [p \in Procs |-> 1]
    /\ stdout'    = [p \in Procs |-> <<>>]
    /\ stderr'    = [p \in Procs |-> <<>>]
    /\ reports'   = [p \in Procs |-> <<>>]
    /\ exitCode'  = [p \in Procs |-> NotExited]
    /\ handler'   = [p \in Procs |-> "none"]
    /\ initErr'   = [p \in Procs |-> Pending]
    /\ UNCHANGED <<fsVars, errcVars>>

Next ==
    \/ \E p \in Procs : main(p)
    \/ \E p \in Procs : initTempDir(p)
    \/ \E p \in Procs : removeAll(p)
    \/ \E p \in Procs : mkdirAll(p)
    \/ \E p \in Procs : initConfig(p)
    \/ \E p \in Procs : mainVersion(p)
    \/ \E p \in Procs : mainSet(p)
    \/ \E p \in Procs : mainGo(p)
    \/ \E p \in Procs : mainRemix(p)
    \/ \E p \in Procs : mainDefault(p)
    \/ \E c \in Children : launchRemix(Top, c)
    \/ \E p \in Procs, d \in {PPreprocess, PInstrument}, f \in Files :
          handlerWrite(p, d, f)
    \/ \E p \in Procs : PreprocessReturn(p)
    \/ \E p \in Procs : InstrumentReturn(p)
    \/ reinvoke

Spec == Init /\ [][Next]_vars

----------------------------------------------------------------------------
(* SpecErr: calls of package errc *)

InitErr ==
    /\ Start(<<ToolName>>)
    /\ root = FALSE
    /\ sub = [d \in {PPreprocess, PInstrument} |-> Absent]
    /\ NoErrc

NextErr ==
    \/ \E r \in Refs, m \in Messages :
          ErrNew(r, m) /\ UNCHANGED <<procVars, fsVars>>
    \/ \E r \in Refs, m \in Messages :
          ErrForeign(r, m) /\ UNCHANGED <<procVars, fsVars>>
    \/ \E r \in Refs, k \in Keys, v \in Values :
          ErrWith(r, k, v) /\ UNCHANGED <<procVars, fsVars>>
    \/ \E r \in {NilRef} \cup Refs, k \in Keys, v \in Values :
          ErrAdhere(r, k, v) /\ UNCHANGED <<procVars, fsVars>>

SpecErr == InitErr /\ [][NextErr]_vars

----------------------------------------------------------------------------
(* Properties *)

Exited(p) == pc[p] = "exited"

Recognized == {SubcommandVersion, SubcommandSet, SubcommandGo, SubcommandRemix}

\* no argument, or a first argument that is no subcommand
NoSubcommand(args) == Len(args) < 2 \/ args[2] \notin Recognized

UsageAndSuccess(p) ==
    /\ stdout[p] = <<"usage">>
    /\ exitCode[p] = 0
    /\ reports[p] = <<>>
    /\ stderr[p] = <<>>

\* C1: when the run phase is Instrument, initTempDir changes nothing on the
\* filesystem (root directory and both subdirectories stay as they were,
\* whatever they were) and returns no error: the process goes on to the
\* configuration with err and the result of initEnv untouched.
C1_InstrumentLeavesWorkspace ==
    [][\A p \in Procs :
          (/\ pc[p] = "initTempDir"
           /\ pc'[p] # "initTempDir"
           /\ runPhase[p] = PInstrument)
          => /\ root' = root
             /\ sub' = sub
             /\ pc'[p] = "initConfig"
             /\ err'[p] = Nil
             /\ initErr'[p] = Pending]_vars

\* C1, witness: a remix process is past initTempDir and the workspace does
\* not exist
C1_Witness ==
    \E p \in Procs :
        /\ osArgs[p] = <<ToolName, SubcommandRemix>>
        /\ runPhase[p] = PInstrument
        /\ pc[p] = "initConfig"
        /\ ~root

\* C2 as stated: a process started with no argument or with a first argument
\* that is no subcommand ends having printed the usage text, with status 0,
\* no fatal report and nothing on the error stream, whatever the start-up
\* steps did.
C2_UsageWhateverStartup ==
    \A p \in Procs :
        Exited(p) /\ NoSubcommand(osArgs[p]) => UsageAndSuccess(p)

\* C2 as amended: the same, for a process with no argument and for a process
\* whose first argument is no subcommand and whose initEnv returned no error.
C2_UsageWhenStartupSucceeds ==
    \A p \in Procs :
        (/\ Exited(p)
         /\ NoSubcommand(osArgs[p])
         /\ (Len(osArgs[p]) < 2 \/ initErr[p] = Nil))
        => UsageAndSuccess(p)

\* C2, witness: "otel xgo" (Preprocess phase, no subcommand) has ended after
\* a start-up without error
C2_Witness ==
    \E p \in Procs :
        /\ Exited(p)
        /\ osArgs[p] = <<ToolName, WordXgo>>
        /\ initErr[p] = Nil
        /\ stdout[p] = <<"usage">>

\* C3: when the remix handler returns an error, the error stream holds the
\* error's rendering (reason, newline, backtrace for a PlentifulError, the
\* message otherwise) and a newline, the status is 1 and no fatal report was
\* emitted.
C3_RemixFailureBypassesFatal ==
    \A p \in Procs :
        (Exited(p) /\ handler[p] = "remix" /\ err[p] # Nil)
        => /\ stderr[p] = IF err[p].kind = "PlentifulError"
                          THEN <<err[p].Reason, "\n", err[p].Cause, "\n">>
                          ELSE <<err[p].Reason, "\n">>
           /\ exitCode[p] = 1
           /\ reports[p] = <<>>

\* C3, witness: a remix child has ended on a PlentifulError of its handler
C3_Witness ==
    \E c \in Children :
        /\ Exited(c)
        /\ handler[c] = "remix"
        /\ err[c].kind = "PlentifulError"
        /\ err[c].Reason = "link error"
        /\ exitCode[c] = 1

\* C4: when the handler of version, set or go returns an error, exactly one
\* fatal report is emitted, the status is not 0 and the usage text is not
\* printed.
C4_HandlerFailureIsFatal ==
    \A p \in Procs :
        (/\ Exited(p)
         /\ handler[p] \in {"version", "set", "go"}
         /\ err[p] # Nil)
        => /\ Len(reports[p]) = 1
           /\ exitCode[p] # 0
           /\ stdout[p] = <<>>
           /\ stderr[p] = <<>>

\* C4, witness: the go handler has returned an error of another kind
C4_Witness ==
    \E p \in Procs :
        /\ Exited(p)
        /\ handler[p] = "go"
        /\ err[p].kind = "opaque"
        /\ Len(reports[p]) = 1

\* C5, for the calls that return nil: after a call of initTempDir in the
\* Preprocess phase, from any prior state of the filesystem, the root
\* directory exists and both subdirectories exist and are empty. (A process
\* at initConfig has just returned from initTempDir, and no other process
\* runs before the handler starts.)
C5_PreprocessWorkspaceClean ==
    \A p \in Procs :
        (runPhase[p] = PPreprocess /\ pc[p] = "initConfig")
        => /\ root
           /\ \A d \in {PPreprocess, PInstrument} : sub[d] = EmptyDir

\* the last two characters of w are "g", "o"
EndsWithGo(w) == Len(w) >= 2 /\ w[Len(w) - 1] = "g" /\ w[Len(w)] = "o"

\* C6: once initEnv has set it, the run phase is Preprocess exactly when the
\* first argument ends with "go", Instrument exactly when it is "remix",
\* and unset otherwise, whatever the later arguments.
C6_PhaseOfFirstArgument ==
    \A p \in Procs :
        (pc[p] \notin {"idle", "main"} /\ Len(osArgs[p]) >= 2)
        => LET a == osArgs[p][2]
           IN  /\ runPhase[p] = PPreprocess <=> EndsWithGo(a)
               /\ runPhase[p] = PInstrument <=> a = SubcommandRemix
               /\ runPhase[p] = PUnset
                     <=> ~EndsWithGo(a) /\ a # SubcommandRemix

\* C6, witness: "otel xgo" is in the Preprocess phase, "go build" too
C6_Witness ==
    /\ osArgs[Top] \in {<<ToolName, WordXgo>>,
                        <<ToolName, SubcommandGo, WordBuild>>}
    /\ runPhase[Top] = PPreprocess
    /\ pc[Top] = "initTempDir"

\* the lines of the environment block, in their order
IsEnvironmentBlock(m, args) ==
    /\ Len(m) >= 5
    /\ m[1] = Header("Environments")
    /\ m[2] = Line("command", Join(args, <<" ">>))
    /\ m[3].label = "errorLog"
    /\ m[4].label = "workDir"
    /\ m[5].label = "toolchain"

\* C7 as stated: every fatal report is the environment block, then one line
\* per entry of Details exactly when the error is a PlentifulError with
\* entries, then a trailing section that holds the error's reason (its
\* message, for an error of another kind) and not its backtrace.
C7_FatalReportShape ==
    \A p \in Procs : \A i \in 1..Len(reports[p]) :
        LET m == reports[p][i]
            e == err[p]
            n == IF e.kind = "PlentifulError"
                 THEN Cardinality(DOMAIN e.Details) ELSE 0
        IN  /\ IsEnvironmentBlock(m, osArgs[p])
            /\ Len(m) >= 5 + n + 1
            /\ {m[5 + j] : j \in 1..n}
                  = {Line(k, <<e.Details[k]>>) : k \in DOMAIN e.Details}
            /\ m[5 + n + 1] = Header("Fatal Error")
            /\ \E j \in (5 + n + 2)..Len(m) : m[j].value = <<e.Reason>>
            /\ \A j \in (5 + n + 2)..Len(m) :
                  \A x \in 1..Len(m[j].value) : m[j].value[x] # StackTrace

\* C8: a call of Adhere returns the reference it was given; if that is a
\* PlentifulError, its Details afterwards are the old ones with key set to
\* value, its Reason and Cause are unchanged and no other object changes;
\* otherwise (nil, or an error of another kind) the heap is unchanged.
C8_AdhereReturnsItsArgument ==
    [][call'.op = "Adhere" =>
          LET e == call'.err
              k == call'.key
              v == call'.value
          IN  /\ ret' = e
              /\ IF heap[e].kind = "PlentifulError"
                 THEN /\ DOMAIN heap'[e].Details
                            = DOMAIN heap[e].Details \cup {k}
                      /\ heap'[e].Details[k] = v
                      /\ \A k2 \in DOMAIN heap[e].Details \ {k} :
                            heap'[e].Details[k2] = heap[e].Details[k2]
                      /\ heap'[e].kind = heap[e].kind
                      /\ heap'[e].Reason = heap[e].Reason
                      /\ heap'[e].Cause = heap[e].Cause
                      /\ \A r \in DOMAIN heap \ {e} : heap'[r] = heap[r]
                 ELSE heap' = heap]_vars

\* C8, witness: Adhere has set a second key of a PlentifulError
C8_Witness ==
    /\ call.op = "Adhere"
    /\ ret = call.err
    /\ heap[ret].kind = "PlentifulError"
    /\ DOMAIN heap[ret].Details = Keys
    /\ heap[ret].Details[call.key] = call.value

\* C9: once a remix child of the go handler has started, no step removes or
\* creates the root directory or a subdirectory, and no file of a
\* subdirectory is removed.
C9_NoResetWhileChildrenRun ==
    [][(\E c \in Children : pc[c] # "idle")
          => /\ root' = root
             /\ \A d \in {PPreprocess, PInstrument} :
                   /\ sub'[d].exists = sub[d].exists
                   /\ sub[d].files \subseteq sub'[d].files]_vars

\* C9, witness: every child has run to its end beside the go handler, and a
\* file written meanwhile is still there
C9_Witness ==
    /\ pc[Top] = "handler"
    /\ handler[Top] = "go"
    /\ \A c \in Children : Exited(c) /\ runPhase[c] = PInstrument
    /\ sub[PPreprocess] = [exists |-> TRUE, files |-> Files]
    /\ sub[PInstrument] = [exists |-> TRUE, files |-> Files]

\* C10: when initEnv returns an error (for whatever subcommand), no handler
\* is invoked, exactly one fatal report is emitted, starting with the
\* environment block, and the process ends with a status that is not 0; the
\* step in which the root directory cannot be created changes nothing on
\* the filesystem.
C10_StartupFailureIsFatal ==
    /\ [](\A p \in Procs :
            initErr[p] \notin {Pending, Nil}
            => /\ handler[p] = "none"
               /\ Exited(p)
               /\ Len(reports[p]) = 1
               /\ IsEnvironmentBlock(reports[p][1], osArgs[p])
               /\ exitCode[p] # 0
               /\ stdout[p] = <<>>
               /\ stderr[p] = <<>>)
    /\ [][\A p \in Procs :
            (pc[p] = "initTempDir" /\ initErr'[p] \notin {Pending, Nil})
            => root' = root /\ sub' = sub]_vars

\* C10, witness: a remix child has ended on a failure of the configuration
C10_WitnessRemix ==
    \E c \in Children :
        /\ osArgs[c] = <<ToolName, SubcommandRemix>>
        /\ initErr[c] \in ConfigErrors
        /\ Exited(c)
        /\ Len(reports[c]) = 1

====
